---- MODULE Spec2Model ----
(***************************************************************************)
(* Model of dbt_metricflow/cli/mf_sql.py: the `mf-sql` fast-path explain   *)
(* command.  Python strings are sequences of one-character strings, so     *)
(* that strip, lower, split, splitlines and join are computed, not         *)
(* assumed.  Optional values are None / Some(v).                           *)
(***************************************************************************)
EXTENDS Integers, Sequences, FiniteSets, TLC

VARIABLES
    pc,      \* position in the running function
    args,    \* the arguments of the call (cli options, or a function's input)
    stdin,   \* the text waiting on standard input
    file,    \* what the file system holds at the manifest path
    calls,   \* the collaborator calls made so far, in order
    out,     \* what click.echo has written so far, in order
    err,     \* the exception that ended the run, or NoErr
    locals,  \* the local variables of cli and _build_fast_path_engine
    req,     \* the MetricFlowQueryRequest built by cli, or NoReq
    res,     \* the MetricFlowExplainResult returned by explain, or NoRes
    ret      \* the result of the function under test, or NoRet

vars == <<pc, args, stdin, file, calls, out, err, locals, req, res, ret>>

----------------------------------------------------------------------------
(* Bounds of the model.                                                     *)

MaxPad == 1        \* whitespace characters added on each side of a dialect name
MaxCsvLen == 4     \* length of the strings given to _parse_csv
MaxTextLen == 2    \* length of the texts on standard input

----------------------------------------------------------------------------
(* Python values.                                                           *)

None == [isNone |-> TRUE]
Some(v) == [isNone |-> FALSE, val |-> v]

NoErr == [type |-> "none"]
NoReq == [built |-> FALSE]
NoRes == [explained |-> FALSE]
NoRet == [called |-> FALSE]
NoLocals == [bound |-> FALSE]

RECURSIVE StringsUpTo(_, _)
\* All strings over `alphabet` of length at most n.
StringsUpTo(alphabet, n) ==
    IF n = 0 THEN {<<>>}
    ELSE LET shorter == StringsUpTo(alphabet, n - 1)
         IN shorter \cup {Append(s, c) : s \in shorter, c \in alphabet}

\* str.isspace() for one character (of the characters the model uses).
Whitespace == {" ", "\t", "\n"}

RECURSIVE lstrip(_)
lstrip(s) ==
    IF s # <<>> /\ Head(s) \in Whitespace THEN lstrip(Tail(s)) ELSE s

RECURSIVE rstrip(_)
rstrip(s) ==
    IF s # <<>> /\ s[Len(s)] \in Whitespace
    THEN rstrip(SubSeq(s, 1, Len(s) - 1))
    ELSE s

\* str.strip(): whitespace removed from both ends, the inside kept.
strip(s) == rstrip(lstrip(s))

UpperLetters ==
    <<"A", "B", "C", "D", "E", "F", "G", "H", "I", "J", "K", "L", "M",
      "N", "O", "P", "Q", "R", "S", "T", "U", "V", "W", "X", "Y", "Z">>
LowerLetters ==
    <<"a", "b", "c", "d", "e", "f", "g", "h", "i", "j", "k", "l", "m",
      "n", "o", "p", "q", "r", "s", "t", "u", "v", "w", "x", "y", "z">>

lowerChar(c) ==
    IF \E i \in 1..26 : UpperLetters[i] = c
    THEN LowerLetters[CHOOSE i \in 1..26 : UpperLetters[i] = c]
    ELSE c

upperChar(c) ==
    IF \E i \in 1..26 : LowerLetters[i] = c
    THEN UpperLetters[CHOOSE i \in 1..26 : LowerLetters[i] = c]
    ELSE c

\* str.lower() and str.upper().
lower(s) == [i \in 1..Len(s) |-> lowerChar(s[i])]
upper(s) == [i \in 1..Len(s) |-> upperChar(s[i])]

\* The characters of the model in code-point order: Python orders strings
\* by code point.
CodePoints ==
    <<"\t", "\n", " ", ",", "-", ".", "/">> \o UpperLetters \o <<"_">>
        \o LowerLetters \o <<"{", "}">>

ord(c) == CHOOSE i \in 1..Len(CodePoints) : CodePoints[i] = c

RECURSIVE StrLess(_, _)
\* a < b on Python strings.
StrLess(a, b) ==
    IF b = <<>> THEN FALSE
    ELSE IF a = <<>> THEN TRUE
    ELSE IF Head(a) # Head(b) THEN ord(Head(a)) < ord(Head(b))
    ELSE StrLess(Tail(a), Tail(b))

RECURSIVE Insert(_, _)
Insert(x, sortedSeq) ==
    IF sortedSeq = <<>> THEN <<x>>
    ELSE IF StrLess(x, Head(sortedSeq)) THEN <<x>> \o sortedSeq
    ELSE <<Head(sortedSeq)>> \o Insert(x, Tail(sortedSeq))

RECURSIVE sorted(_)
\* sorted(list of str).
sorted(list) ==
    IF list = <<>> THEN <<>>
    ELSE Insert(list[Len(list)], sorted(SubSeq(list, 1, Len(list) - 1)))

RECURSIVE join(_, _)
\* sep.join(list).
join(sep, list) ==
    IF list = <<>> THEN <<>>
    ELSE IF Len(list) = 1 THEN list[1]
    ELSE list[1] \o sep \o join(sep, Tail(list))

RECURSIVE split(_, _)
\* s.split(sep) for a one-character sep: always at least one piece.
split(s, sep) ==
    IF \A i \in 1..Len(s) : s[i] # sep THEN <<s>>
    ELSE LET k == CHOOSE i \in 1..Len(s) :
                      s[i] = sep /\ \A j \in 1..(i - 1) : s[j] # sep
         IN <<SubSeq(s, 1, k - 1)>> \o split(SubSeq(s, k + 1, Len(s)), sep)

RECURSIVE SelectTruthy(_)
\* [x for x in list if x]: the non-empty strings, in order.
SelectTruthy(list) ==
    IF list = <<>> THEN <<>>
    ELSE IF Head(list) # <<>> THEN <<Head(list)>> \o SelectTruthy(Tail(list))
    ELSE SelectTruthy(Tail(list))

----------------------------------------------------------------------------
(* _parse_csv                                                               *)

\* The same with the filter `if item.strip()` left out.
_parse_csv_keeps_blanks(value) ==
    IF value = None THEN None
    ELSE IF value.val = <<>> THEN Some(<<>>)
    ELSE LET items == split(value.val, ",")
         IN Some([i \in 1..Len(items) |-> strip(items[i])])

\* The same with the items filtered but left untrimmed.
_parse_csv_untrimmed(value) ==
    IF value = None THEN None
    ELSE IF value.val = <<>> THEN Some(<<>>)
    ELSE LET items == split(value.val, ",")
             blank == [i \in 1..Len(items) |->
                          IF strip(items[i]) = <<>> THEN <<>> ELSE items[i]]
         IN Some(SelectTruthy(blank))

_parse_csv(value) ==
    IF value = None THEN None
    ELSE IF value.val = <<>> THEN Some(<<>>)
    ELSE LET items == split(value.val, ",")
             stripped == [i \in 1..Len(items) |-> strip(items[i])]
         IN Some(SelectTruthy(stripped))

----------------------------------------------------------------------------
(* _DialectOnlySqlClient                                                    *)

big_query  == <<"b", "i", "g", "_", "q", "u", "e", "r", "y">>
bigquery   == <<"b", "i", "g", "q", "u", "e", "r", "y">>
postgres   == <<"p", "o", "s", "t", "g", "r", "e", "s">>
postgresql == <<"p", "o", "s", "t", "g", "r", "e", "s", "q", "l">>
redshift   == <<"r", "e", "d", "s", "h", "i", "f", "t">>
snowflake  == <<"s", "n", "o", "w", "f", "l", "a", "k", "e">>

\* The members of the SqlEngine enumeration.
SqlEngine ==
    {"BIGQUERY", "DUCKDB", "REDSHIFT", "POSTGRES", "SNOWFLAKE", "DATABRICKS",
     "TRINO"}

\* The dict `aliases`, in insertion order.
aliases ==
    << [key |-> bigquery,   value |-> "BIGQUERY"],
       [key |-> big_query,  value |-> "BIGQUERY"],
       [key |-> postgres,   value |-> "POSTGRES"],
       [key |-> postgresql, value |-> "POSTGRES"],
       [key |-> redshift,   value |-> "REDSHIFT"],
       [key |-> snowflake,  value |-> "SNOWFLAKE"] >>

\* aliases.keys()
aliases_keys == [i \in 1..Len(aliases) |-> aliases[i].key]

\* aliases[k] for a key k of the dict.
aliases_get(k) == aliases[CHOOSE i \in 1..Len(aliases) : aliases[i].key = k].value

\* click.BadParameter(f"..."): the f-string's template and the values
\* interpolated into it.
BadParameter(template, values) ==
    [type |-> "BadParameter", message |-> template, values |-> values]

Raised(error, constructed) ==
    [raised |-> TRUE, error |-> error, constructed |-> constructed]
Returned(value, constructed) ==
    [raised |-> FALSE, value |-> value, constructed |-> constructed]

\* cls(sql_engine_type=..., sql_plan_renderer=...)
_DialectOnlySqlClient(sql_engine_type, sql_plan_renderer) ==
    [sql_engine_type |-> sql_engine_type, sql_plan_renderer |-> sql_plan_renderer]

\* The same with the Redshift branch building the Postgres renderer.
from_sql_engine_wrong_renderer(sql_engine) ==
    LET build(renderer) ==
            Returned(_DialectOnlySqlClient(sql_engine, renderer), <<renderer>>)
    IN CASE sql_engine = "BIGQUERY"  -> build("BigQuerySqlPlanRenderer")
         [] sql_engine = "POSTGRES"  -> build("PostgresSQLSqlPlanRenderer")
         [] sql_engine = "REDSHIFT"  -> build("PostgresSQLSqlPlanRenderer")
         [] sql_engine = "SNOWFLAKE" -> build("SnowflakeSqlPlanRenderer")
         [] OTHER -> Raised(BadParameter("Unsupported dialect: {}", <<sql_engine>>), <<>>)

\* The result of the classmethod and the renderers it constructed.
from_sql_engine(sql_engine) ==
    LET build(renderer) ==
            Returned(_DialectOnlySqlClient(sql_engine, renderer), <<renderer>>)
    IN CASE sql_engine = "BIGQUERY"  -> build("BigQuerySqlPlanRenderer")
         [] sql_engine = "POSTGRES"  -> build("PostgresSQLSqlPlanRenderer")
         [] sql_engine = "REDSHIFT"  -> build("RedshiftSqlPlanRenderer")
         [] sql_engine = "SNOWFLAKE" -> build("SnowflakeSqlPlanRenderer")
         [] OTHER -> Raised(BadParameter("Unsupported dialect: {}", <<sql_engine>>), <<>>)

IsAlias(normalized) == \E i \in 1..Len(aliases) : aliases[i].key = normalized

from_dialect_name(dialect_name) ==
    LET normalized == lower(strip(dialect_name))
    IN IF ~IsAlias(normalized)
       THEN Raised(BadParameter("Unsupported dialect {!r}. Expected one of: {}.",
                                <<dialect_name, join(<<",", " ">>, sorted(aliases_keys))>>),
                   <<>>)
       ELSE from_sql_engine(aliases_get(normalized))

----------------------------------------------------------------------------
(* _parse_optional_datetime                                                 *)

\* The timestamps of the model: an ISO date, the same with a time, and two
\* strings dateutil's parser rejects.
ts_date == <<"2", "0", "2", "0", "-", "0", "1", "-", "0", "2">>
ts_datetime == ts_date \o <<"T", "0", "3", ":", "0", "4">>
ts_garbage == <<"n", "o", "p", "e">>
ts_empty == <<>>

\* dateutil.parser.parse on the timestamps of the model:
\* [year, month, day, hour, minute], or ParserError.
parse_datetime(value) ==
    CASE value = ts_date ->
            Returned([year |-> 2020, month |-> 1, day |-> 2, hour |-> 0, minute |-> 0], <<>>)
      [] value = ts_datetime ->
            Returned([year |-> 2020, month |-> 1, day |-> 2, hour |-> 3, minute |-> 4], <<>>)
      [] OTHER -> Raised([type |-> "ParserError", values |-> <<value>>], <<>>)

\* The same with a timestamp that does not parse taken as absent.
_parse_optional_datetime_lenient(value) ==
    IF value = None THEN Returned(None, <<>>)
    ELSE LET parsed == parse_datetime(value.val)
         IN IF parsed.raised THEN Returned(None, <<>>)
            ELSE Returned(Some(parsed.value), <<>>)

_parse_optional_datetime(value) ==
    IF value = None THEN Returned(None, <<>>)
    ELSE LET parsed == parse_datetime(value.val)
         IN IF parsed.raised THEN parsed ELSE Returned(Some(parsed.value), <<>>)

----------------------------------------------------------------------------
(* _load_semantic_manifest_from_source                                      *)

\* One collaborator call: the function called and the text handed to it.
Call(fn, arg) == [fn |-> fn, arg |-> arg]

\* What the file system holds at a path.
Missing == [kind |-> "missing"]
Directory == [kind |-> "dir"]
File(text) == [kind |-> "file", text |-> text]

\* str(Path(source)): the empty string names the current directory.
Path(source) == IF source = <<>> THEN <<".">> ELSE source

\* parse_manifest_from_dbt_generated_manifest(manifest_json_string=raw): the
\* external parser accepts the text (accepted) or raises its own error.
parse_manifest(raw, accepted) ==
    IF accepted
    THEN Returned([manifest_of |-> raw], <<>>)
    ELSE Raised([type |-> "ValidationError", values |-> <<raw>>], <<>>)

\* The outcome of a load and the calls it made.
Loaded(result, made) ==
    [raised |-> result.raised,
     outcome |-> IF result.raised THEN result.error ELSE result.value,
     calls |-> made]

\* `text` is what waits on standard input, `entry` what the file system
\* holds at Path(source), `accepted` whether the parser accepts the text.
_load_semantic_manifest_from_source(manifest_source, text, entry, accepted) ==
    LET source == strip(manifest_source)
        manifest_path == Path(source)
        parse(raw, made) ==
            Loaded(parse_manifest(raw, accepted),
                   made \o <<Call("parse_manifest_from_dbt_generated_manifest", raw)>>)
    IN IF source = <<"-">>
       THEN IF strip(text) = <<>>
            THEN Loaded(Raised(BadParameter(
                            "stdin is empty; pass a semantic manifest JSON string or file.",
                            <<>>), <<>>),
                        <<Call("sys.stdin.read", <<>>)>>)
            ELSE parse(text, <<Call("sys.stdin.read", <<>>)>>)
       ELSE IF entry.kind = "missing"
            THEN Loaded(Raised(BadParameter("Semantic manifest not found: {}",
                                            <<manifest_path>>), <<>>),
                        <<Call("Path.exists", manifest_path)>>)
            ELSE IF entry.kind = "dir"
            THEN Loaded(Raised([type |-> "IsADirectoryError",
                                values |-> <<manifest_path>>], <<>>),
                        <<Call("Path.exists", manifest_path),
                          Call("Path.read_text", manifest_path)>>)
            ELSE parse(entry.text,
                       <<Call("Path.exists", manifest_path),
                         Call("Path.read_text", manifest_path)>>)

----------------------------------------------------------------------------
(* The plan block of cli                                                    *)

RECURSIVE splitlines(_, _)
\* str.splitlines(keepends): a final line break opens no further line.
splitlines(s, keepends) ==
    IF s = <<>> THEN <<>>
    ELSE IF \A i \in 1..Len(s) : s[i] # "\n" THEN <<s>>
    ELSE LET k == CHOOSE i \in 1..Len(s) :
                      s[i] = "\n" /\ \A j \in 1..(i - 1) : s[j] # "\n"
         IN <<SubSeq(s, 1, IF keepends THEN k ELSE k - 1)>>
                \o splitlines(SubSeq(s, k + 1, Len(s)), keepends)

Spaces(n) == [i \in 1..n |-> " "]

\* jinja2's filter indent(width), first=False, blank=False: the first line
\* and the empty lines are left alone.
jinja_indent(s, width) ==
    LET lines == splitlines(s \o <<"\n">>, FALSE)
        rest == Tail(lines)
        indented == [i \in 1..Len(rest) |->
                        IF rest[i] # <<>> THEN Spaces(width) \o rest[i] ELSE rest[i]]
    IN IF rest = <<>> THEN lines[1]
       ELSE lines[1] \o <<"\n">> \o join(<<"\n">>, indented)

RECURSIVE concat(_)
\* "".join(list)
concat(list) == IF list = <<>> THEN <<>> ELSE Head(list) \o concat(Tail(list))

\* textwrap.indent(text, prefix): the default predicate leaves the lines
\* that consist solely of whitespace without the prefix.
textwrap_indent(text, prefix) ==
    LET lines == splitlines(text, TRUE)
    IN concat([i \in 1..Len(lines) |->
                  IF strip(lines[i]) # <<>> THEN prefix \o lines[i] ELSE lines[i]])

plan_label ==
    <<"M", "e", "t", "r", "i", "c", " ", "D", "a", "t", "a", "f", "l", "o",
      "w", " ", "P", "l", "a", "n", ":">>

comment_marker == <<"-", "-", " ">>

\* The dedented template, whose one trailing newline jinja2 drops, rendered
\* with plan_text.
render_template(plan_text) ==
    plan_label \o <<"\n">> \o Spaces(4) \o jinja_indent(plan_text, 4)

\* The text of the first click.echo of the plan branch.
plan_block(plan_text) == textwrap_indent(render_template(plan_text), comment_marker)

\* The progress markers; the elapsed time is printed with two decimals.
start_marker ==
    <<"m", "f", "-", "s", "q", "l", ":", " ", "q", "u", "e", "r", "y", " ",
      "s", "t", "a", "r", "t">>
end_marker_prefix ==
    <<"m", "f", "-", "s", "q", "l", ":", " ", "q", "u", "e", "r", "y", " ",
      "e", "n", "d", " ", "(">>

end_marker(elapsed) == end_marker_prefix \o elapsed \o <<"s", ")">>

----------------------------------------------------------------------------
(* The request built by cli                                                 *)

\* `[where] if where is not None else None`: the empty string kept.
where_constraints_keeps_empty(where) ==
    IF where # None THEN Some(<<where.val>>) ELSE None

\* `[where] if where else None`
where_constraints(where) ==
    IF where # None /\ where.val # <<>> THEN Some(<<where.val>>) ELSE None

\* The keyword arguments of create_with_random_request_id, evaluated in
\* the order they are written; a timestamp that does not parse raises.
request_arguments(a) ==
    LET start == _parse_optional_datetime(a.start_time)
        end == _parse_optional_datetime(a.end_time)
    IN IF start.raised THEN start
       ELSE IF end.raised THEN end
       ELSE Returned([metric_names |-> _parse_csv(Some(a.metrics)),
                      group_by_names |-> _parse_csv(Some(a.group_by)),
                      limit |-> a.limit,
                      time_constraint_start |-> start.value,
                      time_constraint_end |-> end.value,
                      where_constraints |-> where_constraints(a.where),
                      order_by_names |-> _parse_csv(Some(a.order))],
                     <<>>)

\* The rendering printed is the other one.
select_sql_swapped(explain_result, show_sql_descriptions) ==
    IF show_sql_descriptions
    THEN explain_result.sql_statement.without_descriptions.sql
    ELSE explain_result.sql_statement.sql

\* The value of the local `sql`.
select_sql(explain_result, show_sql_descriptions) ==
    IF ~show_sql_descriptions
    THEN explain_result.sql_statement.without_descriptions.sql
    ELSE explain_result.sql_statement.sql

\* The plan branch is never taken.
after_select_never_plan(show_dataflow_plan) == "emit_sql"

\* `if show_dataflow_plan:` decides what follows the selection of `sql`.
after_select(show_dataflow_plan) ==
    IF show_dataflow_plan THEN "emit_plan" ELSE "emit_sql"

\* One click.echo: the statement that wrote it and the message written.
Echo(stmt, text) == [stmt |-> stmt, text |-> text]

----------------------------------------------------------------------------
(* The inputs of the cli runs                                               *)

manifest_json == <<"{", "}">>

\* --semantic-manifest, with what standard input and the file system hold.
ManifestWorlds ==
    { [source |-> <<"-">>, stdin |-> manifest_json, file |-> Missing],
      [source |-> <<" ", "-">>, stdin |-> <<" ", "\n">>, file |-> Missing],
      [source |-> <<"-">>, stdin |-> <<>>, file |-> Missing],
      [source |-> <<"m", ".", "j">>, stdin |-> <<>>, file |-> File(manifest_json)],
      [source |-> <<"x", ".", "j">>, stdin |-> <<>>, file |-> Missing],
      [source |-> <<>>, stdin |-> <<>>, file |-> Directory] }

\* --dialect
DialectArgs ==
    { postgres,
      <<" ", "B", "i", "g", "Q", "u", "e", "r", "y", "\n">>,
      <<"m", "y", "s", "q", "l">> }

\* --metrics, --group-by, --order
MetricsArgs == { <<>>, <<"m", ",", " ", "n", " ", ",", ",", "m">> }
GroupByArgs == { <<>>, <<" ", "d", " ">> }
order_desc == <<"-", "d", ",", " ", "m">>
OrderArgs == { <<>>, order_desc }

\* --where
where_plain == <<"x", " ", ">", " ", "1">>
where_padded == <<" ", "x", " ">>
WhereArgs == { None, Some(<<>>), Some(<<" ">>), Some(where_plain), Some(where_padded) }

\* --start-time, --end-time
StartTimeArgs == { None, Some(ts_date), Some(ts_garbage) }
EndTimeArgs == { None, Some(ts_datetime), Some(ts_empty) }

\* --limit
LimitArgs == { None, Some(5) }

CliArgs ==
    { [semantic_manifest |-> w.source, dialect |-> d, metrics |-> m,
       group_by |-> g, where |-> wh, start_time |-> st, end_time |-> et,
       order |-> o, limit |-> l, show_dataflow_plan |-> sp,
       show_sql_descriptions |-> sd] :
        w \in ManifestWorlds, d \in DialectArgs, m \in MetricsArgs,
        g \in GroupByArgs, wh \in WhereArgs, st \in StartTimeArgs,
        et \in EndTimeArgs, o \in OrderArgs, l \in LimitArgs,
        sp \in BOOLEAN, sd \in BOOLEAN }

\* What explain can return: a SQL statement with its two renderings and a
\* dataflow plan with its structure text.
sql_stripped == <<"S", "E", "L", "E", "C", "T", " ", "1">>
sql_full == <<"-", "-", " ", "m", "\n", "S", "E", "L", "E", "C", "T", " ", "1">>

SqlStatements ==
    { [sql |-> sql_full, without_descriptions |-> [sql |-> sql_stripped]],
      [sql |-> sql_stripped, without_descriptions |-> [sql |-> sql_stripped]] }

PlanTexts ==
    { <<"<", "P", ">">>,
      <<"<", "P", ">", "\n", " ", " ", "<", "N", "/", ">", "\n", "<", "/", "P", ">">>,
      <<"<", "P", ">", "\n", "\n", "<", "/", "P", ">">>,
      <<"<", "P", ">", "\n", " ", "\n", "<", "/", "P", ">">> }

ExplainResults ==
    { [explained |-> TRUE, sql_statement |-> st,
       dataflow_plan |-> [structure_text |-> pt]] :
        st \in SqlStatements, pt \in PlanTexts }

\* f"{elapsed_seconds:.2f}"
ElapsedTexts == { <<"0", ".", "0", "0">>, <<"1", ".", "2", "5">> }

\* An exception raised inside a collaborator.
CollaboratorError(fn) == [type |-> "CollaboratorError", values |-> <<fn>>]

----------------------------------------------------------------------------
(* cli                                                                      *)

Init ==
    /\ \E w \in ManifestWorlds :
        /\ args \in {a \in CliArgs : a.semantic_manifest = w.source}
        /\ stdin = w.stdin
        /\ file = w.file
    /\ pc = "start"
    /\ calls = <<>>
    /\ out = <<>>
    /\ err = NoErr
    /\ locals = [semantic_manifest |-> None, semantic_manifest_lookup |-> None,
                 sql_client |-> None, mf_engine |-> None, sql |-> None]
    /\ req = NoReq
    /\ res = NoRes
    /\ ret = NoRet

\* An exception leaves cli: nothing more is written.
Fail(error) ==
    /\ err' = error
    /\ pc' = "failed"

\* Lines 196-197: the start marker.
CliStart ==
    /\ pc = "start"
    /\ out' = Append(out, Echo("start", start_marker))
    /\ pc' = "load_manifest"
    /\ UNCHANGED <<args, stdin, file, calls, err, locals, req, res, ret>>

\* Lines 107-108: the logger is quietened and the manifest loaded.
LoadManifest ==
    /\ pc = "load_manifest"
    /\ \E accepted \in BOOLEAN :
        LET loaded == _load_semantic_manifest_from_source(
                          args.semantic_manifest, stdin, file, accepted)
        IN /\ calls' = calls \o <<Call("Logger.setLevel", <<>>)>> \o loaded.calls
           /\ IF loaded.raised
              THEN Fail(loaded.outcome) /\ UNCHANGED locals
              ELSE /\ locals' = [locals EXCEPT !.semantic_manifest = Some(loaded.outcome)]
                   /\ pc' = "build_lookup"
                   /\ UNCHANGED err
    /\ UNCHANGED <<args, stdin, file, out, req, res, ret>>

\* Line 109: SemanticManifestLookup(semantic_manifest).
BuildLookup ==
    /\ pc = "build_lookup"
    /\ calls' = Append(calls, Call("SemanticManifestLookup", <<>>))
    /\ \E built \in BOOLEAN :
        IF built
        THEN /\ locals' = [locals EXCEPT !.semantic_manifest_lookup =
                               Some([lookup_of |-> locals.semantic_manifest.val])]
             /\ pc' = "resolve_dialect"
             /\ UNCHANGED err
        ELSE Fail(CollaboratorError("SemanticManifestLookup")) /\ UNCHANGED locals
    /\ UNCHANGED <<args, stdin, file, out, req, res, ret>>

\* Line 110: _DialectOnlySqlClient.from_dialect_name(dialect).
ResolveDialect ==
    /\ pc = "resolve_dialect"
    /\ LET client == from_dialect_name(args.dialect)
       IN /\ calls' = calls \o [i \in 1..Len(client.constructed) |->
                                   Call(client.constructed[i], <<>>)]
          /\ IF client.raised
             THEN Fail(client.error) /\ UNCHANGED locals
             ELSE /\ locals' = [locals EXCEPT !.sql_client = Some(client.value)]
                  /\ pc' = "build_engine"
                  /\ UNCHANGED err
    /\ UNCHANGED <<args, stdin, file, out, req, res, ret>>

\* Line 111: MetricFlowEngine(semantic_manifest_lookup=..., sql_client=...).
BuildEngine ==
    /\ pc = "build_engine"
    /\ calls' = Append(calls, Call("MetricFlowEngine", <<>>))
    /\ \E built \in BOOLEAN :
        IF built
        THEN /\ locals' = [locals EXCEPT !.mf_engine =
                               Some([semantic_manifest_lookup |->
                                         locals.semantic_manifest_lookup.val,
                                     sql_client |-> locals.sql_client.val])]
             /\ pc' = "build_request"
             /\ UNCHANGED err
        ELSE Fail(CollaboratorError("MetricFlowEngine")) /\ UNCHANGED locals
    /\ UNCHANGED <<args, stdin, file, out, req, res, ret>>

\* Lines 200-208: the request.
BuildRequest ==
    /\ pc = "build_request"
    /\ LET arguments == request_arguments(args)
       IN IF arguments.raised
          THEN Fail(arguments.error) /\ UNCHANGED <<req, calls>>
          ELSE /\ req' = [built |-> TRUE] @@ arguments.value
               /\ calls' = Append(calls, Call("create_with_random_request_id", <<>>))
               /\ pc' = "explain"
               /\ UNCHANGED err
    /\ UNCHANGED <<args, stdin, file, out, locals, res, ret>>

\* Line 210: mf_engine.explain(mf_request=mf_request).
Explain ==
    /\ pc = "explain"
    /\ calls' = Append(calls, Call("explain", <<>>))
    /\ \/ /\ res' \in ExplainResults
          /\ pc' = "select_sql"
          /\ UNCHANGED err
       \/ Fail(CollaboratorError("explain")) /\ UNCHANGED res
    /\ UNCHANGED <<args, stdin, file, out, locals, req, ret>>

\* Lines 211-216: the rendering is chosen.
SelectSql ==
    /\ pc = "select_sql"
    /\ locals' = [locals EXCEPT !.sql = Some(select_sql(res, args.show_sql_descriptions))]
    /\ pc' = after_select(args.show_dataflow_plan)
    /\ UNCHANGED <<args, stdin, file, calls, out, err, req, res, ret>>

\* Lines 217-233: the commented plan block and an empty line.
EmitPlan ==
    /\ pc = "emit_plan"
    /\ calls' = Append(calls, Call("structure_text", <<>>))
    /\ \E rendered \in BOOLEAN :
        IF rendered
        THEN /\ out' = out \o <<Echo("plan", plan_block(res.dataflow_plan.structure_text)),
                                Echo("blank", <<>>)>>
             /\ pc' = "emit_sql"
             /\ UNCHANGED err
        ELSE Fail(CollaboratorError("structure_text")) /\ UNCHANGED out
    /\ UNCHANGED <<args, stdin, file, locals, req, res, ret>>

\* Line 235: the SQL text.
EmitSql ==
    /\ pc = "emit_sql"
    /\ out' = Append(out, Echo("sql", locals.sql.val))
    /\ pc' = "emit_end"
    /\ UNCHANGED <<args, stdin, file, calls, err, locals, req, res, ret>>

\* Lines 236-237: the end marker with the elapsed time.
EmitEnd ==
    /\ pc = "emit_end"
    /\ \E elapsed \in ElapsedTexts :
        out' = Append(out, Echo("end", end_marker(elapsed)))
    /\ pc' = "done"
    /\ UNCHANGED <<args, stdin, file, calls, err, locals, req, res, ret>>

Next ==
    \/ CliStart
    \/ LoadManifest
    \/ BuildLookup
    \/ ResolveDialect
    \/ BuildEngine
    \/ BuildRequest
    \/ Explain
    \/ SelectSql
    \/ EmitPlan
    \/ EmitSql
    \/ EmitEnd

Spec == Init /\ [][Next]_vars

----------------------------------------------------------------------------
(* The functions called on their own                                        *)

\* The variables a function called on its own leaves untouched.
Idle ==
    /\ out = <<>>
    /\ err = NoErr
    /\ locals = NoLocals
    /\ req = NoReq
    /\ res = NoRes

Result(value) == [called |-> TRUE, result |-> value]

\* _parse_csv: every string over CsvAlphabet up to MaxCsvLen, None, and the
\* documented example.
CsvAlphabet == {"a", "b", ",", " "}
csv_example == <<"a", ",", " ", "b", " ", ",", ",", "c">>

CsvValues ==
    {None} \cup {Some(s) : s \in StringsUpTo(CsvAlphabet, MaxCsvLen) \cup {csv_example}}

InitCsv ==
    /\ args \in {[fn |-> "_parse_csv", value |-> v] : v \in CsvValues}
    /\ pc = "call"
    /\ stdin = <<>>
    /\ file = Missing
    /\ calls = <<>>
    /\ ret = NoRet
    /\ Idle

CallParseCsv ==
    /\ pc = "call"
    /\ args.fn = "_parse_csv"
    /\ ret' = Result(_parse_csv(args.value))
    /\ pc' = "returned"
    /\ UNCHANGED <<args, stdin, file, calls, out, err, locals, req, res>>

NextCsv == CallParseCsv

SpecCsv == InitCsv /\ [][NextCsv]_vars

\* The dialect names: the aliases and some other words, in four spellings,
\* with up to MaxPad whitespace characters on each side.
capitalize(s) == IF s = <<>> THEN s ELSE <<upperChar(s[1])>> \o Tail(s)
alternate(s) == [i \in 1..Len(s) |-> IF i % 2 = 0 THEN upperChar(s[i]) ELSE s[i]]

DialectWords ==
    { bigquery, big_query, postgres, postgresql, redshift, snowflake,
      <<>>,
      <<"m", "y", "s", "q", "l">>,
      <<"d", "u", "c", "k", "d", "b">>,
      <<"p", "o", "s", "t", "g", "r", "e">>,
      <<"b", "i", "g", " ", "q", "u", "e", "r", "y">>,
      <<"s", "n", "o", "w", "f", "l", "a", "k", "e", "s">>,
      <<"r", "e", "d", "-", "s", "h", "i", "f", "t">> }

DialectNames ==
    { l \o v \o r :
        l \in StringsUpTo(Whitespace, MaxPad),
        r \in StringsUpTo(Whitespace, MaxPad),
        v \in UNION { {w, upper(w), capitalize(w), alternate(w)} : w \in DialectWords } }

InitDialect ==
    /\ args \in {[fn |-> "from_dialect_name", dialect_name |-> n] : n \in DialectNames}
                \cup {[fn |-> "from_sql_engine", sql_engine |-> e] : e \in SqlEngine}
    /\ pc = "call"
    /\ stdin = <<>>
    /\ file = Missing
    /\ calls = <<>>
    /\ ret = NoRet
    /\ Idle

\* The renderers a call constructed, as calls.
Constructions(result) ==
    [i \in 1..Len(result.constructed) |-> Call(result.constructed[i], <<>>)]

CallFromDialectName ==
    /\ pc = "call"
    /\ args.fn = "from_dialect_name"
    /\ LET result == from_dialect_name(args.dialect_name)
       IN /\ ret' = Result(result)
          /\ calls' = Constructions(result)
    /\ pc' = "returned"
    /\ UNCHANGED <<args, stdin, file, out, err, locals, req, res>>

CallFromSqlEngine ==
    /\ pc = "call"
    /\ args.fn = "from_sql_engine"
    /\ LET result == from_sql_engine(args.sql_engine)
       IN /\ ret' = Result(result)
          /\ calls' = Constructions(result)
    /\ pc' = "returned"
    /\ UNCHANGED <<args, stdin, file, out, err, locals, req, res>>

NextDialect == CallFromDialectName \/ CallFromSqlEngine

SpecDialect == InitDialect /\ [][NextDialect]_vars

\* _load_semantic_manifest_from_source: the sources, every text on standard
\* input up to MaxTextLen, and a path that is missing, a directory or a file.
LoadSources ==
    { <<"-">>, <<" ", "-">>, <<"-", "\n">>, <<"m">>, <<" ", "m", " ">>,
      <<"-", "m">>, <<>>, <<" ">> }

TextAlphabet == {" ", "\n", "{"}
Texts == StringsUpTo(TextAlphabet, MaxTextLen)

InitLoad ==
    /\ args \in {[fn |-> "_load_semantic_manifest_from_source", manifest_source |-> m] :
                    m \in LoadSources}
    /\ stdin \in Texts
    /\ file \in {Missing, Directory} \cup {File(t) : t \in Texts}
    \* Path("") is the current directory.
    /\ strip(args.manifest_source) = <<>> => file = Directory
    /\ pc = "call"
    /\ calls = <<>>
    /\ ret = NoRet
    /\ Idle

CallLoad ==
    /\ pc = "call"
    /\ args.fn = "_load_semantic_manifest_from_source"
    /\ \E accepted \in BOOLEAN :
        LET loaded == _load_semantic_manifest_from_source(
                          args.manifest_source, stdin, file, accepted)
        IN /\ ret' = Result(loaded)
           /\ calls' = loaded.calls
    /\ pc' = "returned"
    /\ UNCHANGED <<args, stdin, file, out, err, locals, req, res>>

NextLoad == CallLoad

SpecLoad == InitLoad /\ [][NextLoad]_vars

----------------------------------------------------------------------------
(* Properties                                                               *)

\* The calls of `made` to the function fn, in order.
CallsTo(made, fn) == SelectSeq(made, LAMBDA c : c.fn = fn)

\* The k-th smallest member of a set of integers.
Nth(S, k) == CHOOSE i \in S : Cardinality({j \in S : j < i}) = k - 1

\* The k-th of the pieces that the commas of s delimit.
CommaPiece(s, k) ==
    LET commas == {i \in 1..Len(s) : s[i] = ","}
        first == IF k = 1 THEN 1 ELSE Nth(commas, k - 1) + 1
        last == IF k = Cardinality(commas) + 1 THEN Len(s) ELSE Nth(commas, k) - 1
    IN SubSeq(s, first, last)

\* item is piece without the whitespace around it, and is not empty.
IsTrimOf(item, piece) ==
    /\ item # <<>>
    /\ item[1] \notin Whitespace
    /\ item[Len(item)] \notin Whitespace
    /\ \E a \in 1..Len(piece) :
        /\ SubSeq(piece, a, a + Len(item) - 1) = item
        /\ \A i \in 1..Len(piece) :
            (i < a \/ i > a + Len(item) - 1) => piece[i] \in Whitespace

\* C1: from_dialect_name is total: a name whose trimmed, lower-cased form is
\* one of the six aliases gives a client of the dialect the alias names with
\* the one renderer bound to that dialect, and that renderer is the only one
\* constructed; every other name fails with BadParameter, the message lists
\* the six aliases sorted, and no renderer is constructed.
C1_DialectResolution ==
    (pc = "returned" /\ args.fn = "from_dialect_name") =>
        LET n == lower(strip(args.dialect_name))
            r == ret.result
            engine == CASE n \in {bigquery, big_query} -> "BIGQUERY"
                        [] n \in {postgres, postgresql} -> "POSTGRES"
                        [] n = redshift -> "REDSHIFT"
                        [] n = snowflake -> "SNOWFLAKE"
                        [] OTHER -> "none"
            renderer == CASE engine = "BIGQUERY" -> "BigQuerySqlPlanRenderer"
                          [] engine = "POSTGRES" -> "PostgresSQLSqlPlanRenderer"
                          [] engine = "REDSHIFT" -> "RedshiftSqlPlanRenderer"
                          [] engine = "SNOWFLAKE" -> "SnowflakeSqlPlanRenderer"
                          [] OTHER -> "none"
        IN IF engine # "none"
           THEN /\ ~r.raised
                /\ r.value.sql_engine_type = engine
                /\ r.value.sql_plan_renderer = renderer
                /\ calls = <<Call(renderer, <<>>)>>
           ELSE /\ r.raised
                /\ r.error.type = "BadParameter"
                /\ r.error.values[1] = args.dialect_name
                /\ r.error.values[2] =
                       join(<<",", " ">>,
                            <<big_query, bigquery, postgres, postgresql, redshift,
                              snowflake>>)
                /\ calls = <<>>

\* C1 witness: " REDSHIFT" followed by a newline resolved to the Redshift
\* client.
C1_Witness ==
    /\ pc = "returned"
    /\ args.fn = "from_dialect_name"
    /\ args.dialect_name = <<" ">> \o upper(redshift) \o <<"\n">>
    /\ ~ret.result.raised
    /\ ret.result.value.sql_engine_type = "REDSHIFT"

\* C2: _parse_csv gives None for None, the empty sequence for the empty
\* string, and otherwise the trimmed comma-delimited pieces that are not
\* blank, in input order and with duplicates; never None for a string.
C2_ParseCsv ==
    pc = "returned" =>
        LET v == args.value
            r == ret.result
        IN /\ v = None => r = None
           /\ v # None => r # None
           /\ (v # None /\ v.val = <<>>) => r = Some(<<>>)
           /\ v = Some(csv_example) => r = Some(<< <<"a">>, <<"b">>, <<"c">> >>)
           /\ (v # None /\ v.val # <<>>) =>
                LET s == v.val
                    n == Cardinality({i \in 1..Len(s) : s[i] = ","}) + 1
                    kept == {k \in 1..n :
                                \E i \in 1..Len(CommaPiece(s, k)) :
                                    CommaPiece(s, k)[i] \notin Whitespace}
                IN /\ Len(r.val) = Cardinality(kept)
                   /\ \A i \in 1..Len(r.val) :
                        IsTrimOf(r.val[i], CommaPiece(s, Nth(kept, i)))

\* C2 witness: the documented example, with a blank item dropped.
C2_Witness ==
    /\ pc = "returned"
    /\ args.value = Some(csv_example)
    /\ ret.result = Some(<< <<"a">>, <<"b">>, <<"c">> >>)

\* C3: the load fails with BadParameter and no parser call exactly when the
\* source is `-` with blank standard input or a path that does not exist
\* (the error names the path); in every other case the parser is called
\* once on the full text read and its result or failure comes back unchanged.
C3_LoadContract ==
    pc = "returned" =>
        LET source == strip(args.manifest_source)
            r == ret.result
            parses == CallsTo(calls, "parse_manifest_from_dbt_generated_manifest")
            empty_stdin == source = <<"-">> /\ strip(stdin) = <<>>
            no_such_path == source # <<"-">> /\ file.kind = "missing"
        IN IF empty_stdin \/ no_such_path
           THEN /\ r.raised
                /\ r.outcome.type = "BadParameter"
                /\ parses = <<>>
                /\ no_such_path => r.outcome.values = <<Path(source)>>
           ELSE /\ Len(parses) = 1
                /\ parses[1].arg = (IF source = <<"-">> THEN stdin ELSE file.text)
                /\ (source = <<"-">>) <=> (CallsTo(calls, "sys.stdin.read") # <<>>)
                /\ (source # <<"-">>) <=> (CallsTo(calls, "Path.read_text") # <<>>)
                /\ r.outcome = IF r.raised
                               THEN parse_manifest(parses[1].arg, FALSE).error
                               ELSE parse_manifest(parses[1].arg, TRUE).value


\* The statements that wrote `out`, in order.
Stmts == [i \in 1..Len(out) |-> out[i].stmt]

IsPrefix(a, b) == Len(a) <= Len(b) /\ SubSeq(b, 1, Len(a)) = a

Emitted(stmt) == \E i \in 1..Len(out) : out[i].stmt = stmt

Called(fn) == CallsTo(calls, fn) # <<>>

\* The output of a run in which every stage succeeds.
FullShape ==
    IF args.show_dataflow_plan
    THEN <<"start", "plan", "blank", "sql", "end">>
    ELSE <<"start", "sql", "end">>

\* C4: the start marker is written before any stage runs; the end marker
\* is written exactly in the runs in which every stage succeeds and is then
\* last, after the SQL text, which follows the plan block exactly when
\* --show-dataflow-plan is given; a run in which a stage fails writes
\* neither the SQL text nor the end marker.
C4_OutputShape ==
    /\ pc = "start" => (out = <<>> /\ calls = <<>>)
    /\ pc # "start" => (out # <<>> /\ out[1] = Echo("start", start_marker))
    /\ IsPrefix(Stmts, FullShape)
    /\ Emitted("end") <=> pc = "done"
    /\ pc = "done" =>
        /\ err = NoErr
        /\ Stmts = FullShape
        /\ out[Len(out) - 1] = Echo("sql", locals.sql.val)
        /\ \E elapsed \in ElapsedTexts : out[Len(out)] = Echo("end", end_marker(elapsed))
    /\ pc = "failed" =>
        /\ err # NoErr
        /\ ~Emitted("sql")
        /\ ~Emitted("end")
    /\ pc \notin {"done", "failed"} => err = NoErr

\* C4 witness: a run with --show-dataflow-plan that ended with the end
\* marker after the plan block and the SQL text.
C4_Witness ==
    /\ pc = "done"
    /\ args.show_dataflow_plan
    /\ Stmts = <<"start", "plan", "blank", "sql", "end">>

\* The four invalid inputs, read off the arguments and the environment.
BadDialect == lower(strip(args.dialect)) \notin
                  {bigquery, big_query, postgres, postgresql, redshift, snowflake}
MissingManifest == strip(args.semantic_manifest) # <<"-">> /\ file.kind = "missing"
EmptyStdin == strip(args.semantic_manifest) = <<"-">> /\ strip(stdin) = <<>>
BadTimestamp ==
    \/ args.start_time # None /\ parse_datetime(args.start_time.val).raised
    \/ args.end_time # None /\ parse_datetime(args.end_time.val).raised

\* C5 as claimed: a run with any of the four invalid inputs does not
\* complete, and when one of the four invalid-argument errors is raised the
\* engine has not been constructed and explain has not been called.
C5_AbortBeforeEngine ==
    /\ (BadDialect \/ MissingManifest \/ EmptyStdin \/ BadTimestamp) => pc # "done"
    /\ (pc = "failed" /\ err.type \in {"BadParameter", "ParserError"}) =>
        /\ ~Called("MetricFlowEngine")
        /\ ~Called("explain")

\* C5 amended: an unrecognized dialect, a missing manifest file and an empty
\* standard input abort the run before the engine is constructed and before
\* explain is called; a timestamp that does not parse aborts it before
\* explain is called, but it is parsed only after the engine has been
\* constructed.
C5_AbortBeforeExplain ==
    /\ (BadDialect \/ MissingManifest \/ EmptyStdin) =>
        /\ ~Called("MetricFlowEngine")
        /\ ~Called("explain")
    /\ BadTimestamp => (~Called("explain") /\ req = NoReq)
    /\ (BadDialect \/ MissingManifest \/ EmptyStdin \/ BadTimestamp) =>
        pc \in {"start", "load_manifest", "build_lookup", "resolve_dialect",
                "build_engine", "build_request", "failed"}
    /\ (pc = "failed" /\ err.type = "ParserError") =>
        (BadTimestamp /\ Called("MetricFlowEngine"))

\* C5 witness: a run stopped by --start-time, after the engine was built and
\* before explain.
C5_Witness ==
    /\ pc = "failed"
    /\ err.type = "ParserError"
    /\ args.start_time = Some(ts_garbage)
    /\ Called("MetricFlowEngine")
    /\ ~Called("explain")

StartsWith(s, prefix) == IsPrefix(prefix, s)

\* C6: every line of the plan block written before the SQL text starts
\* with the comment marker `-- `, whatever the plan structure text.
C6_PlanBlockCommented ==
    \A i \in 1..Len(out) :
        out[i].stmt = "plan" =>
            LET lines == splitlines(out[i].text, FALSE)
            IN \A k \in 1..Len(lines) : StartsWith(lines[k], comment_marker)

\* C7: the SQL text printed is the full rendering with
\* --show-sql-descriptions and the stripped rendering without, unchanged,
\* whatever --show-dataflow-plan is; the plan block is printed exactly with
\* --show-dataflow-plan and is made of the plan's structure text alone.
C7_SqlSelection ==
    LET expected == IF args.show_sql_descriptions
                    THEN res.sql_statement.sql
                    ELSE res.sql_statement.without_descriptions.sql
    IN /\ locals.sql # None => locals.sql = Some(expected)
       /\ \A i \in 1..Len(out) : out[i].stmt = "sql" => out[i].text = expected
       /\ \A i \in 1..Len(out) :
            out[i].stmt = "plan" =>
                out[i].text = plan_block(res.dataflow_plan.structure_text)
       /\ Emitted("sql") => (Emitted("plan") <=> args.show_dataflow_plan)

\* C7 witness: the full rendering printed, without a plan block.
C7_Witness ==
    /\ pc = "done"
    /\ args.show_sql_descriptions
    /\ ~args.show_dataflow_plan
    /\ res.sql_statement.sql # res.sql_statement.without_descriptions.sql
    /\ out[2] = Echo("sql", sql_full)

\* C8: where_constraints is None when --where is omitted or empty, and
\* otherwise the one-element sequence holding the predicate verbatim; never
\* the empty sequence, never more than one element.
C8_WhereConstraints ==
    req # NoReq =>
        /\ (args.where = None \/ args.where = Some(<<>>)) => req.where_constraints = None
        /\ (args.where # None /\ args.where # Some(<<>>)) =>
            req.where_constraints = Some(<<args.where.val>>)
        /\ req.where_constraints # Some(<<>>)
        /\ req.where_constraints # None => Len(req.where_constraints.val) = 1

\* C8 witness: a request built from a predicate with surrounding spaces.
C8_Witness ==
    /\ req # NoReq
    /\ args.where = Some(where_padded)
    /\ req.where_constraints = Some(<<where_padded>>)

DialectResolved == locals.sql_client # None

\* C9: the engine is built in the order load manifest, resolve dialect,
\* build lookup, build engine: the lookup is built only after the dialect
\* has been resolved, and when the manifest load or the dialect resolution
\* fails the engine is never constructed.
C9_ConstructionOrder ==
    /\ DialectResolved => locals.semantic_manifest # None
    /\ locals.semantic_manifest_lookup # None => DialectResolved
    /\ locals.mf_engine # None => locals.semantic_manifest_lookup # None
    /\ (locals.semantic_manifest = None \/ ~DialectResolved) => ~Called("MetricFlowEngine")

\* Every element is non-empty and has no whitespace at either end.
WellFormed(list) ==
    \A i \in 1..Len(list) :
        /\ list[i] # <<>>
        /\ list[i][1] \notin Whitespace
        /\ list[i][Len(list[i])] \notin Whitespace

\* C10 as claimed: each of the four list-valued fields of the request is
\* None or a sequence of non-empty trimmed strings, and an empty-string
\* comma-separated option gives the empty sequence.
C10_ListFieldsWellFormed ==
    req # NoReq =>
        /\ \A field \in {req.metric_names, req.group_by_names, req.order_by_names,
                         req.where_constraints} :
            field = None \/ WellFormed(field.val)
        /\ args.metrics = <<>> => req.metric_names = Some(<<>>)
        /\ args.group_by = <<>> => req.group_by_names = Some(<<>>)
        /\ args.order = <<>> => req.order_by_names = Some(<<>>)

\* C10 amended: metric_names, group_by_names and order_by_names are
\* sequences of non-empty trimmed strings, the empty sequence for an
\* empty-string option, and a leading `-` of an ordering key is kept;
\* where_constraints is None for an omitted or empty --where and otherwise
\* holds the predicate as given, whitespace included.
C10_CsvFieldsWellFormed ==
    req # NoReq =>
        /\ \A field \in {req.metric_names, req.group_by_names, req.order_by_names} :
            field # None /\ WellFormed(field.val)
        /\ args.metrics = <<>> => req.metric_names = Some(<<>>)
        /\ args.group_by = <<>> => req.group_by_names = Some(<<>>)
        /\ args.order = <<>> => req.order_by_names = Some(<<>>)
        /\ args.order = order_desc =>
            req.order_by_names = Some(<< <<"-", "d">>, <<"m">> >>)
        /\ req.where_constraints = None <=> (args.where = None \/ args.where = Some(<<>>))
        /\ req.where_constraints # None =>
            req.where_constraints.val = <<args.where.val>>

\* C10 witness: a request whose predicate is a single space, beside trimmed
\* group-by and ordering keys.
C10_Witness ==
    /\ req # NoReq
    /\ args.where = Some(<<" ">>)
    /\ req.where_constraints = Some(<< <<" ">> >>)
    /\ args.order = order_desc
    /\ req.order_by_names = Some(<< <<"-", "d">>, <<"m">> >>)
    /\ req.group_by_names = Some(<< <<"d">> >>)

====
